---- MODULE Spec2Model ----
(***************************************************************************)
(* Task orchestration core of MEL-25_agent-graph: the orchestrator's      *)
(* create_task / _start_workflow pipeline, the HTTP dispatch to the four  *)
(* worker agents, and the workers' writes to the shared graph store.      *)
(* Every session.run of a request handler is one step of the model; the   *)
(* statements a process runs while it starts (_initialize_graph,          *)
(* _initialize_agent) are one step, since it serves no request meanwhile. *)
(*                                                                         *)
(* The orchestrator and each worker are single uvicorn processes whose    *)
(* handlers call the blocking requests and neo4j APIs without ever        *)
(* yielding to the event loop: each process handles one request at a      *)
(* time. A worker can still be busy with a request whose POST the         *)
(* orchestrator has given up on (timeout) while the next Task runs.       *)
(***************************************************************************)
EXTENDS Integers, Sequences, FiniteSets, TLC

\* ------------------------------------------------------------------ bounds
\* create_task requests the clients make
MaxTasks == 2

\* failures the environment injects: transport errors, timeouts, store or
\* connection exceptions in a worker's try block, refused storage-service posts
MaxFaults == 1

\* ------------------------------------------------------ inputs and values
Null == "<null>"

\* The create_task inputs: the request test_system.py posts, every field of
\* which differs from the defaults _send_task_to_agent falls back to.
Requests ==
  { [task_type |-> "marketing_analysis",
     target_url |-> "https://bettercalldominik.com/",
     analysis_scope |-> <<"content", "structure", "links", "metadata">>,
     priority |-> "high"] }

NoRequest ==
  [task_type |-> Null, target_url |-> Null, analysis_scope |-> <<>>, priority |-> Null]

Workers == {"research", "analysis", "strategy", "report"}

StorageWorkers == {"research", "analysis"}

GraphWorkers == {"strategy", "report"}

\* ------------------------------------------------------------- the state
VARIABLES
  uuid,          \* number of uuid4() values drawn so far; the next one is uuid + 1
  agentNodes,    \* Agent nodes of the graph store, in creation order
  taskNodes,     \* Task nodes, keyed by their id property
  subTaskNodes,  \* SubTask nodes, keyed by their id property
  resultNodes,   \* Result nodes, keyed by their id property
  ASSIGNED_TO,   \* <<index of Agent node, id of Task or SubTask>>
  CONTAINS,      \* <<Task id, SubTask id>>
  PRODUCES,      \* <<SubTask id, Result id>>
  COORDINATES,   \* <<index of the coordination Agent node, index of a worker's>>
  storage,       \* files of the research storage service
  orch,          \* the orchestrator's create_task handler
  inbox,         \* per worker: POST /task requests accepted but not yet handled
  worker,        \* per worker: its process_task handler
  calls,         \* per SubTask id: status and number of the orchestrator's POSTs
  outcome,       \* per Task id: what create_task gave its client
  faults,        \* number of failures injected so far
  connection     \* a starting process's _initialize_neo4j_connection loop

vars == <<uuid, agentNodes, taskNodes, subTaskNodes, resultNodes, ASSIGNED_TO,
          CONTAINS, PRODUCES, COORDINATES, storage, orch, inbox, worker, calls, outcome,
          faults, connection>>

store == <<agentNodes, taskNodes, subTaskNodes, resultNodes, ASSIGNED_TO,
           CONTAINS, PRODUCES, COORDINATES>>

\* ----------------------------------------------------------- orchestrator
\* Orchestrator._get_agent_capabilities
AgentCapabilities(agent_type) ==
  CASE agent_type = "research" -> <<"web_scraping", "data_collection", "market_research">>
    [] agent_type = "analysis" -> <<"data_processing", "pattern_recognition", "insights_generation">>
    [] agent_type = "strategy" -> <<"strategy_formulation", "competitive_analysis", "recommendations">>
    [] agent_type = "report" -> <<"report_generation", "latex_formatting", "visualization">>
    [] OTHER -> <<>>

\* f"{agent_type}_agent"
AgentIdOf(agent_type) ==
  CASE agent_type = "research" -> "research_agent"
    [] agent_type = "analysis" -> "analysis_agent"
    [] agent_type = "strategy" -> "strategy_agent"
    [] agent_type = "report" -> "report_agent"

\* An Agent node as Orchestrator._initialize_graph merges it: the key is `id`,
\* the node has no `agent_id` property.
RegisteredAgent(agent_type) ==
  [id |-> AgentIdOf(agent_type), agent_id |-> Null, type |-> agent_type,
   status |-> "available", capabilities |-> AgentCapabilities(agent_type),
   current_task |-> ""]

CoordinationAgent ==
  [id |-> "coordination_agent", agent_id |-> Null, type |-> "coordination",
   status |-> "available",
   capabilities |-> <<"task_distribution", "workflow_management">>,
   current_task |-> ""]

\* The agent nodes in the store once Orchestrator.__init__ has run.
InitialAgentNodes ==
  << RegisteredAgent("research"), RegisteredAgent("analysis"),
     RegisteredAgent("strategy"), RegisteredAgent("report"), CoordinationAgent >>

\* MATCH (a:Agent {id: $agent_id})
AgentsWithId(id) == { i \in DOMAIN agentNodes : agentNodes[i].id = id }

\* MATCH (a:Agent {agent_id: $agent_id})
AgentsWithAgentId(id) == { i \in DOMAIN agentNodes : agentNodes[i].agent_id = id }

\* MERGE (a:Agent {id: .., type: .., status: .., capabilities: .., current_task: ..})
\* as _initialize_graph and _initialize_agent write it: a node matches only if
\* all five properties have the given values; when none does, a node is created.
MergeAgentNode(nodes, node) ==
  IF \E i \in DOMAIN nodes :
       /\ nodes[i].id = node.id
       /\ nodes[i].type = node.type
       /\ nodes[i].status = node.status
       /\ nodes[i].capabilities = node.capabilities
       /\ nodes[i].current_task = node.current_task
    THEN nodes
    ELSE Append(nodes, node)

\* The Agent nodes after the two loops' MERGEs of _initialize_graph.
GraphAgentNodes(nodes) ==
  MergeAgentNode(
    MergeAgentNode(
      MergeAgentNode(
        MergeAgentNode(
          MergeAgentNode(nodes, RegisteredAgent("research")),
          RegisteredAgent("analysis")),
        RegisteredAgent("strategy")),
      RegisteredAgent("report")),
    CoordinationAgent)

\* MATCH (coord:Agent {id: 'coordination_agent'}) MATCH (agent:Agent {id: $agent_id})
\* MERGE (coord)-[:COORDINATES]->(agent), for the four agent types.
Coordinated(nodes) ==
  { <<c, a>> \in (DOMAIN nodes) \X (DOMAIN nodes) :
      /\ nodes[c].id = "coordination_agent"
      /\ nodes[a].id \in { AgentIdOf(w) : w \in Workers } }

\* _start_workflow with its second and third phase in the wrong order.
PipelineReordered ==
  << [agent_type |-> "research", task_type |-> "web_scraping"],
     [agent_type |-> "strategy", task_type |-> "strategy_formulation"],
     [agent_type |-> "analysis", task_type |-> "data_analysis"],
     [agent_type |-> "report", task_type |-> "report_generation"] >>

\* The four phases of Orchestrator._start_workflow, in program order.
Pipeline ==
  << [agent_type |-> "research", task_type |-> "web_scraping"],
     [agent_type |-> "analysis", task_type |-> "data_analysis"],
     [agent_type |-> "strategy", task_type |-> "strategy_formulation"],
     [agent_type |-> "report", task_type |-> "report_generation"] >>

\* _start_workflow passing research_task as depends_on in every later phase.
StageParametersStale(k, req, done) ==
  IF k = 1
    THEN [target_url |-> req.target_url, scope |-> req.analysis_scope]
    ELSE [depends_on |-> done[1], scope |-> req.analysis_scope]

\* The parameters dict _start_workflow passes for phase k; done holds the
\* subtask ids the earlier _assign_task_to_agent calls returned.
StageParameters(k, req, done) ==
  IF k = 1
    THEN [target_url |-> req.target_url, scope |-> req.analysis_scope]
    ELSE [depends_on |-> done[k - 1], scope |-> req.analysis_scope]

\* dict.get(key, default)
Get(d, key, default) == IF key \in DOMAIN d THEN d[key] ELSE default

\* json.dumps of a dict with string keys: the text of a JSON object, held as
\* the set of its "key": value members.
JsonDumps(d) == [json |-> { <<k, d[k]>> : k \in DOMAIN d }]

\* json.loads of the text of a JSON object: the dict with one key per member.
JsonLoads(s) ==
  [k \in { m[1] : m \in s.json } |-> (CHOOSE m \in s.json : m[1] = k)[2]]

\* The payload Orchestrator._send_task_to_agent builds.
Payload(agent_type, subtask_id, task_type, parameters) ==
  IF agent_type = "research"
    THEN [task_id |-> subtask_id,
          target_url |-> Get(parameters, "target_url", ""),
          analysis_scope |-> Get(parameters, "analysis_scope", <<>>),
          priority |-> Get(parameters, "priority", "medium")]
    ELSE [subtask_id |-> subtask_id, task_type |-> task_type,
          parameters |-> parameters]

\* The id under which a worker knows the request it handles.
RequestId(w, payload) == IF w = "research" THEN payload.task_id ELSE payload.subtask_id

\* The environment injects a failure (failed), within its budget.
Fault(failed) ==
  IF failed THEN faults < MaxFaults /\ faults' = faults + 1
            ELSE UNCHANGED faults

IdleOrch ==
  [pc |-> "idle", task_id |-> 0, req |-> NoRequest, stage |-> 0,
   subtask_id |-> 0, done |-> <<>>, reply |-> "none", answer |-> <<>>]

NoPayload == [subtask_id |-> 0]

IdleWorker == [pc |-> "idle", req |-> NoPayload, result |-> <<>>]

\* No process is starting: every process has its driver.
NoConnection == [process |-> "none", attempt |-> 0, state |-> "connected", last |-> "ok"]

Init ==
  /\ uuid = 0
  /\ agentNodes = InitialAgentNodes
  /\ taskNodes = <<>>
  /\ subTaskNodes = <<>>
  /\ resultNodes = <<>>
  /\ ASSIGNED_TO = {}
  /\ CONTAINS = {}
  /\ PRODUCES = {}
  /\ COORDINATES = Coordinated(InitialAgentNodes)
  /\ storage = {}
  /\ orch = IdleOrch
  /\ inbox = [w \in Workers |-> <<>>]
  /\ worker = [w \in Workers |-> IdleWorker]
  /\ calls = <<>>
  /\ outcome = <<>>
  /\ faults = 0
  /\ connection = NoConnection

\* The orchestrator process starts again: Orchestrator.__init__ runs
\* _initialize_graph before the process serves any request.
InitializeGraph ==
  /\ orch.pc = "idle"
  /\ agentNodes' = GraphAgentNodes(agentNodes)
  /\ COORDINATES' = COORDINATES \cup Coordinated(agentNodes')
  /\ UNCHANGED <<connection, uuid, taskNodes, subTaskNodes, resultNodes, ASSIGNED_TO, CONTAINS,
                 PRODUCES, storage, orch, inbox, worker, calls, outcome, faults>>

\* A strategy or report worker process starts again: StrategyAgent.__init__ /
\* ReportAgent.__init__ run _initialize_agent. The research and analysis
\* workers register nothing when they start.
InitializeAgent(w) ==
  /\ w \in GraphWorkers
  /\ worker[w].pc = "idle"
  /\ inbox[w] = <<>>
  /\ agentNodes' = MergeAgentNode(agentNodes, RegisteredAgent(w))
  /\ UNCHANGED <<connection, uuid, taskNodes, subTaskNodes, resultNodes, ASSIGNED_TO, CONTAINS,
                 PRODUCES, COORDINATES, storage, orch, inbox, worker, calls, outcome,
                 faults>>

\* Orchestrator.create_task, lines 156-176: draw the task id, CREATE the Task.
CreateTask(req) ==
  /\ orch.pc = "idle"
  /\ Cardinality(DOMAIN taskNodes) < MaxTasks
  /\ uuid' = uuid + 1
  /\ taskNodes' = taskNodes @@ ((uuid + 1) :>
       [type |-> req.task_type, status |-> "pending", priority |-> req.priority,
        target_url |-> req.target_url, analysis_scope |-> req.analysis_scope])
  /\ orch' = [IdleOrch EXCEPT !.pc = "assign_coordination", !.task_id = uuid + 1,
                              !.req = req]
  /\ outcome' = outcome @@ ((uuid + 1) :> "in_progress")
  /\ UNCHANGED <<connection, COORDINATES, agentNodes, subTaskNodes, resultNodes, ASSIGNED_TO, CONTAINS,
                 PRODUCES, storage, inbox, worker, calls, faults>>

\* Orchestrator.create_task, lines 178-186: MERGE (coord)-[:ASSIGNED_TO]->(task),
\* then enter _start_workflow.
AssignCoordination ==
  /\ orch.pc = "assign_coordination"
  /\ ASSIGNED_TO' = ASSIGNED_TO \cup
       { <<i, orch.task_id>> : i \in AgentsWithId("coordination_agent") }
  /\ orch' = [orch EXCEPT !.pc = "create_subtask", !.stage = 1]
  /\ UNCHANGED <<connection, COORDINATES, uuid, agentNodes, taskNodes, subTaskNodes, resultNodes, CONTAINS,
                 PRODUCES, storage, inbox, worker, calls, outcome, faults>>

\* Orchestrator._assign_task_to_agent, lines 238-254: CREATE the SubTask.
CreateSubTask ==
  /\ orch.pc = "create_subtask"
  /\ uuid' = uuid + 1
  /\ subTaskNodes' = subTaskNodes @@ ((uuid + 1) :>
       [type |-> Pipeline[orch.stage].task_type, status |-> "pending",
        parameters |-> JsonDumps(StageParameters(orch.stage, orch.req, orch.done))])
  /\ orch' = [orch EXCEPT !.pc = "link_task", !.subtask_id = uuid + 1]
  /\ UNCHANGED <<connection, COORDINATES, agentNodes, taskNodes, resultNodes, ASSIGNED_TO, CONTAINS,
                 PRODUCES, storage, inbox, worker, calls, outcome, faults>>

\* _assign_task_to_agent matching (task:Task) without its id: the SubTask is
\* linked to every Task in the store.
LinkSubTaskToTaskUnkeyed ==
  /\ orch.pc = "link_task"
  /\ CONTAINS' = CONTAINS \cup
       { <<t, s>> \in (DOMAIN taskNodes) \X {orch.subtask_id} : s \in DOMAIN subTaskNodes }
  /\ orch' = [orch EXCEPT !.pc = "link_agent"]
  /\ UNCHANGED <<connection, COORDINATES, uuid, agentNodes, taskNodes, subTaskNodes, resultNodes,
                 ASSIGNED_TO, PRODUCES, storage, inbox, worker, calls, outcome, faults>>

\* Orchestrator._assign_task_to_agent, lines 256-264: MERGE (task)-[:CONTAINS]->(subtask).
LinkSubTaskToTask ==
  /\ orch.pc = "link_task"
  /\ CONTAINS' = CONTAINS \cup
       { <<t, s>> \in {orch.task_id} \X {orch.subtask_id} :
           t \in DOMAIN taskNodes /\ s \in DOMAIN subTaskNodes }
  /\ orch' = [orch EXCEPT !.pc = "link_agent"]
  /\ UNCHANGED <<connection, COORDINATES, uuid, agentNodes, taskNodes, subTaskNodes, resultNodes,
                 ASSIGNED_TO, PRODUCES, storage, inbox, worker, calls, outcome, faults>>

\* Orchestrator._assign_task_to_agent, lines 266-274: MERGE (agent)-[:ASSIGNED_TO]->(subtask).
LinkSubTaskToAgent ==
  /\ orch.pc = "link_agent"
  /\ ASSIGNED_TO' = ASSIGNED_TO \cup
       { <<i, orch.subtask_id>> :
           i \in AgentsWithId(AgentIdOf(Pipeline[orch.stage].agent_type)) }
  /\ orch' = [orch EXCEPT !.pc = "send"]
  /\ UNCHANGED <<connection, COORDINATES, uuid, agentNodes, taskNodes, subTaskNodes, resultNodes, CONTAINS,
                 PRODUCES, storage, inbox, worker, calls, outcome, faults>>

\* _send_task_to_agent logging the RequestException without re-raising it:
\* _start_workflow goes on as after a success.
WorkflowSwallows(posted) ==
  /\ calls' = [posted EXCEPT ![orch.subtask_id].status = "failed"]
  /\ IF orch.stage < 4
       THEN /\ orch' = [orch EXCEPT !.pc = "create_subtask", !.stage = @ + 1,
                                    !.done = Append(@, orch.subtask_id),
                                    !.subtask_id = 0, !.reply = "none"]
            /\ UNCHANGED outcome
       ELSE /\ orch' = IdleOrch
            /\ outcome' = [outcome EXCEPT ![orch.task_id] = "started"]

\* What create_task does when _send_task_to_agent raises: the exception passes
\* through _assign_task_to_agent, _start_workflow (log and re-raise) and
\* create_task; the client gets an error and the store is not touched.
\* posted is the record of calls once the failing POST has been issued.
WorkflowRaises(posted) ==
  /\ calls' = [posted EXCEPT ![orch.subtask_id].status = "failed"]
  /\ outcome' = [outcome EXCEPT ![orch.task_id] = "error"]
  /\ orch' = IdleOrch

\* The except block of create_task rolling the Task back: the Results of its
\* SubTasks are deleted with their PRODUCES edges before the error is returned.
StoreWriteRaisesRollsBack ==
  /\ orch.pc \in {"assign_coordination", "create_subtask", "link_task", "link_agent"}
  /\ outcome' = [outcome EXCEPT ![orch.task_id] = "error"]
  /\ orch' = IdleOrch
  /\ Fault(TRUE)
  /\ resultNodes' =
       [r \in { q \in DOMAIN resultNodes :
                  \A s \in DOMAIN subTaskNodes :
                    <<orch.task_id, s>> \in CONTAINS
                      => resultNodes[q].subtask_id # s /\ <<s, q>> \notin PRODUCES }
          |-> resultNodes[r]]
  /\ PRODUCES' = { e \in PRODUCES : <<orch.task_id, e[1]>> \notin CONTAINS }
  /\ UNCHANGED <<connection, uuid, agentNodes, taskNodes, subTaskNodes, ASSIGNED_TO, CONTAINS,
                 COORDINATES, storage, inbox, worker, calls>>

\* A session.run of create_task or _assign_task_to_agent raises: the handler
\* ends with an error, the statement has no effect on the store.
StoreWriteRaises ==
  /\ orch.pc \in {"assign_coordination", "create_subtask", "link_task", "link_agent"}
  /\ outcome' = [outcome EXCEPT ![orch.task_id] = "error"]
  /\ orch' = IdleOrch
  /\ Fault(TRUE)
  /\ UNCHANGED <<connection, uuid, store, storage, inbox, worker, calls>>

\* calls once requests.post has been issued for SubTask s.
Posted(s) ==
  (s :> [status |-> "in_flight",
         posts |-> IF s \in DOMAIN calls THEN calls[s].posts + 1 ELSE 1]) @@ calls

\* _send_task_to_agent issuing the POST without waiting for its answer.
SendTaskToAgentDetached(delivered) ==
  /\ orch.pc = "send"
  /\ delivered
  /\ LET w == Pipeline[orch.stage].agent_type
         p == Payload(w, orch.subtask_id, Pipeline[orch.stage].task_type,
                      StageParameters(orch.stage, orch.req, orch.done))
     IN inbox' = [inbox EXCEPT ![w] = Append(@, p)]
  /\ calls' = Posted(orch.subtask_id)
  /\ IF orch.stage < Len(Pipeline)
       THEN /\ orch' = [orch EXCEPT !.pc = "create_subtask", !.stage = @ + 1,
                                    !.done = Append(@, orch.subtask_id),
                                    !.subtask_id = 0, !.reply = "none"]
            /\ UNCHANGED outcome
       ELSE /\ orch' = IdleOrch
            /\ outcome' = [outcome EXCEPT ![orch.task_id] = "started"]
  /\ UNCHANGED <<connection, uuid, store, storage, worker, faults>>

\* Orchestrator._send_task_to_agent, lines 284-303: build the payload and POST it.
\* delivered = FALSE is a transport error before the worker got the request.
SendTaskToAgent(delivered) ==
  /\ orch.pc = "send"
  /\ LET w == Pipeline[orch.stage].agent_type
         p == Payload(w, orch.subtask_id, Pipeline[orch.stage].task_type,
                      StageParameters(orch.stage, orch.req, orch.done))
     IN IF delivered
          THEN /\ inbox' = [inbox EXCEPT ![w] = Append(@, p)]
               /\ calls' = Posted(orch.subtask_id)
               /\ orch' = [orch EXCEPT !.pc = "wait", !.reply = "none"]
               /\ UNCHANGED outcome
          ELSE /\ WorkflowRaises(Posted(orch.subtask_id))
               /\ UNCHANGED inbox
  /\ Fault(~delivered)
  /\ UNCHANGED <<connection, uuid, store, storage, worker>>

\* _send_task_to_agent answering a timeout with a second POST of the same
\* SubTask instead of raising.
CallTimesOutRetries ==
  /\ orch.pc = "wait"
  /\ orch.reply = "none"
  /\ orch' = [orch EXCEPT !.pc = "send"]
  /\ Fault(TRUE)
  /\ UNCHANGED <<connection, uuid, store, storage, inbox, worker, calls, outcome>>

\* A timeout that cancels the call at the worker: the request is withdrawn
\* from the worker's queue and a handler running it is stopped.
CallTimesOutCancels ==
  /\ orch.pc = "wait"
  /\ orch.reply = "none"
  /\ WorkflowRaises(calls)
  /\ Fault(TRUE)
  /\ inbox' = [w \in DOMAIN inbox |->
       SelectSeq(inbox[w], LAMBDA p : RequestId(w, p) # orch.subtask_id)]
  /\ worker' = [w \in DOMAIN worker |->
       IF worker[w].pc # "idle" /\ RequestId(w, worker[w].req) = orch.subtask_id
         THEN IdleWorker ELSE worker[w]]
  /\ UNCHANGED <<connection, uuid, store, storage>>

\* requests.post(..., timeout=120) gives up: requests.exceptions.Timeout.
\* The worker is not told; it goes on with the request.
CallTimesOut ==
  /\ orch.pc = "wait"
  /\ orch.reply = "none"
  /\ WorkflowRaises(calls)
  /\ Fault(TRUE)
  /\ UNCHANGED <<connection, uuid, store, storage, inbox, worker>>

\* _start_workflow answering a non-2xx answer by running the stage again with
\* a new SubTask instead of re-raising.
CallReturnsErrorRunsStageAgain ==
  /\ orch.pc = "wait"
  /\ orch.reply = "error"
  /\ calls' = [calls EXCEPT ![orch.subtask_id].status = "failed"]
  /\ orch' = [orch EXCEPT !.pc = "create_subtask", !.subtask_id = 0, !.reply = "none"]
  /\ UNCHANGED <<connection, uuid, store, storage, inbox, worker, outcome, faults>>

\* response.raise_for_status() on a non-2xx answer.
CallReturnsError ==
  /\ orch.pc = "wait"
  /\ orch.reply = "error"
  /\ WorkflowRaises(calls)
  /\ UNCHANGED <<connection, uuid, store, storage, inbox, worker, faults>>

\* _assign_task_to_agent setting the SubTask's status itself once the POST has
\* returned 2xx.
CallReturnsSuccessMarksCompleted ==
  /\ orch.pc = "wait"
  /\ orch.reply = "completed"
  /\ calls' = [calls EXCEPT ![orch.subtask_id].status = "returned"]
  /\ subTaskNodes' = [subTaskNodes EXCEPT ![orch.subtask_id].status = "completed"]
  /\ IF orch.stage < Len(Pipeline)
       THEN /\ orch' = [orch EXCEPT !.pc = "create_subtask", !.stage = @ + 1,
                                    !.done = Append(@, orch.subtask_id),
                                    !.subtask_id = 0, !.reply = "none"]
            /\ UNCHANGED outcome
       ELSE /\ orch' = IdleOrch
            /\ outcome' = [outcome EXCEPT ![orch.task_id] = "started"]
  /\ UNCHANGED <<connection, uuid, agentNodes, taskNodes, resultNodes, ASSIGNED_TO, CONTAINS,
                 PRODUCES, COORDINATES, storage, inbox, worker, faults>>

\* The POST returned 2xx: _assign_task_to_agent returns subtask_id and
\* _start_workflow goes on to its next phase, or returns after the fourth and
\* create_task answers TaskResponse(status="started").
CallReturnsSuccess ==
  /\ orch.pc = "wait"
  /\ orch.reply = "completed"
  /\ calls' = [calls EXCEPT ![orch.subtask_id].status = "returned"]
  /\ IF orch.stage < Len(Pipeline)
       THEN /\ orch' = [orch EXCEPT !.pc = "create_subtask", !.stage = @ + 1,
                                    !.done = Append(@, orch.subtask_id),
                                    !.subtask_id = 0, !.reply = "none"]
            /\ UNCHANGED outcome
       ELSE /\ orch' = IdleOrch
            /\ outcome' = [outcome EXCEPT ![orch.task_id] = "started"]
  /\ UNCHANGED <<connection, uuid, store, storage, inbox, worker, faults>>

\* raise HTTPException(status_code=404, detail="Task not found")
TaskNotFound == [code |-> 404, detail |-> "Task not found"]

\* get_task_status using MERGE (task:Task {id: $task_id}) for MATCH: an id
\* that names no Task gets a node.
GetTaskStatusMerging(task_id) ==
  /\ orch.pc = "idle"
  /\ taskNodes' = IF task_id \in DOMAIN taskNodes THEN taskNodes
                  ELSE taskNodes @@ (task_id :>
                         [type |-> Null, status |-> Null, priority |-> Null,
                          target_url |-> Null, analysis_scope |-> <<>>])
  /\ orch' = [IdleOrch EXCEPT !.pc = "answer_status", !.task_id = task_id,
                              !.answer = << [code |-> 200, task_id |-> task_id,
                                             status |-> taskNodes'[task_id].status,
                                             type |-> taskNodes'[task_id].type,
                                             subtasks |-> {}] >>]
  /\ UNCHANGED <<connection, uuid, agentNodes, subTaskNodes, resultNodes, ASSIGNED_TO, CONTAINS,
                 PRODUCES, COORDINATES, storage, inbox, worker, calls, outcome, faults>>

\* Orchestrator.get_task_status, lines 345-371: what the query answers.
\* MATCH (task:Task {id}) OPTIONAL MATCH (task)-[:CONTAINS]->(subtask) RETURN
\* task, collect(subtask); no row means 404. created_at is left out.
TaskStatus(task_id) ==
  IF task_id \notin DOMAIN taskNodes
    THEN TaskNotFound
    ELSE [code |-> 200, task_id |-> task_id,
          status |-> taskNodes[task_id].status,
          type |-> taskNodes[task_id].type,
          subtasks |-> { [id |-> s, type |-> subTaskNodes[s].type,
                          status |-> subTaskNodes[s].status] :
                         s \in { x \in DOMAIN subTaskNodes : <<task_id, x>> \in CONTAINS } }]

\* The ids clients ask about: the ids create_task has returned, and ids that
\* name no Task: one never drawn (0) and, for every Task, the uuid drawn right
\* after its own (the id of its first SubTask, if that was created).
QueriedIds == {0} \cup DOMAIN taskNodes \cup { t + 1 : t \in DOMAIN taskNodes }

\* GET /task/{task_id}: the handler runs on the orchestrator's event loop,
\* hence between two create_task handlers; it only reads the store.
GetTaskStatus(task_id) ==
  /\ orch.pc = "idle"
  /\ orch' = [IdleOrch EXCEPT !.pc = "answer_status", !.task_id = task_id,
                              !.answer = << TaskStatus(task_id) >>]
  /\ UNCHANGED <<connection, uuid, store, storage, inbox, worker, calls, outcome, faults>>

\* The answer of get_task_status goes to the client.
ReturnTaskStatus ==
  /\ orch.pc = "answer_status"
  /\ orch' = IdleOrch
  /\ UNCHANGED <<connection, uuid, store, storage, inbox, worker, calls, outcome, faults>>

\* A property of a node as Cypher returns it: null when the node has no such
\* property.
Property(node, key) == IF key \in DOMAIN node THEN node[key] ELSE Null

\* An AgentStatus built from the record as returned, without the `or` defaults.
AgentStatusEntryUnchecked(node) ==
  [agent_id |-> Property(node, "agent_id"),
   agent_type |-> Property(node, "agent_type"),
   status |-> Property(node, "status"),
   current_task |-> Property(node, "current_task"),
   capabilities |-> Property(node, "capabilities")]

\* get_agent_status, lines 315-338: the record RETURN a.agent_id as id,
\* a.agent_type as type, a.status, a.current_task, a.capabilities gives for one
\* node, with the defaults `or` puts in for null and empty values. A busy
\* node's current_task is the id of a SubTask.
AgentStatusEntry(node) ==
  [agent_id |-> IF Property(node, "agent_id") \in {Null, ""}
                  THEN "unknown" ELSE node.agent_id,
   agent_type |-> IF Property(node, "agent_type") \in {Null, ""}
                    THEN "unknown" ELSE node.agent_type,
   status |-> IF Property(node, "status") \in {Null, ""}
                THEN "unknown" ELSE node.status,
   current_task |-> IF Property(node, "status") = "busy" THEN node.current_task
                    ELSE IF Property(node, "current_task") = Null THEN ""
                    ELSE node.current_task,
   capabilities |-> IF Property(node, "capabilities") \in {<<Null>>, <<>>}
                      THEN <<>> ELSE node.capabilities]

\* GET /agents: the handler runs on the orchestrator's event loop, hence
\* between two create_task handlers; it only reads the store.
GetAgentStatus ==
  /\ orch.pc = "idle"
  /\ orch' = [IdleOrch EXCEPT !.pc = "answer_agents",
                              !.answer = [i \in DOMAIN agentNodes |->
                                            AgentStatusEntry(agentNodes[i])]]
  /\ UNCHANGED <<connection, uuid, store, storage, inbox, worker, calls, outcome, faults>>

\* The answer of get_agent_status goes to the client.
ReturnAgentStatus ==
  /\ orch.pc = "answer_agents"
  /\ orch' = IdleOrch
  /\ UNCHANGED <<connection, uuid, store, storage, inbox, worker, calls, outcome, faults>>

\* --------------------------------------------------------------- workers
\* uvicorn hands the next POST /task to the worker's process_task; the handler
\* never yields to the event loop, so a worker runs one request at a time.
AcceptRequest(w) ==
  /\ worker[w].pc = "idle"
  /\ inbox[w] # <<>>
  /\ worker' = [worker EXCEPT ![w] =
       [pc |-> IF w \in GraphWorkers THEN "set_busy" ELSE "connect",
        req |-> Head(inbox[w]), result |-> <<>>]]
  /\ inbox' = [inbox EXCEPT ![w] = Tail(@)]
  /\ UNCHANGED <<connection, uuid, store, storage, orch, calls, outcome, faults>>

\* StrategyAgent._update_agent_status / ReportAgent._update_agent_status:
\* MATCH (a:Agent {id: $agent_id}) SET a.status, a.current_task.
\* A current_task of None removes the property.
UpdateAgentStatus(w, status, current_task) ==
  [i \in DOMAIN agentNodes |->
     IF agentNodes[i].id = AgentIdOf(w)
       THEN [agentNodes[i] EXCEPT !.status = status, !.current_task = current_task]
       ELSE agentNodes[i]]

\* process_task, line 107: self._update_agent_status("busy", subtask_id)
SetBusy(w) ==
  /\ w \in GraphWorkers
  /\ worker[w].pc = "set_busy"
  /\ agentNodes' = UpdateAgentStatus(w, "busy", worker[w].req.subtask_id)
  /\ worker' = [worker EXCEPT ![w].pc = "get_upstream"]
  /\ UNCHANGED <<connection, COORDINATES, uuid, taskNodes, subTaskNodes, resultNodes, ASSIGNED_TO, CONTAINS,
                 PRODUCES, storage, orch, inbox, calls, outcome, faults>>

\* _get_strategy_results returning record["content"] as stored, without
\* json.loads.
UpstreamResultsUnparsed(task_id) ==
  LET found == { r \in DOMAIN resultNodes :
                   task_id \in DOMAIN subTaskNodes /\ <<task_id, r>> \in PRODUCES }
  IN IF found = {} THEN <<>>
     ELSE << resultNodes[CHOOSE r \in found : TRUE].content >>

\* StrategyAgent._get_analysis_results / ReportAgent._get_strategy_results:
\* MATCH (st:SubTask {id: $task_id})-[:PRODUCES]->(r:Result) RETURN r.content.
\* The empty sequence is None, <<c>> is the parsed content c of the record
\* result.single() returns.
UpstreamResults(task_id) ==
  LET found == { r \in DOMAIN resultNodes :
                   task_id \in DOMAIN subTaskNodes /\ <<task_id, r>> \in PRODUCES }
  IN IF found = {} THEN <<>>
     ELSE << JsonLoads(resultNodes[CHOOSE r \in found : TRUE].content) >>

\* ReportAgent._extract_recommendations / _extract_implementation_plan
ExtractOr(data, key, default) ==
  IF Len(data) = 0 \/ key \notin DOMAIN data[1] THEN default ELSE data[1][key]

\* StrategyAgent._formulate_strategy / ReportAgent._generate_report: the result
\* dict, without its timestamp. A missing upstream Result (None) is accepted.
StageResult(w, parameters) ==
  LET depends_on == Get(parameters, "depends_on", 0)
      data == UpstreamResults(depends_on)
  IN IF w = "strategy"
       THEN [strategy_type |-> "marketing_strategy", source_task |-> depends_on,
             recommendations |-> "strategic_recommendations",
             implementation_plan |-> "three_phase_plan"]
       ELSE [report_type |-> "marketing_analysis_report", source_task |-> depends_on,
             recommendations |-> ExtractOr(data, "recommendations", "default_recommendations"),
             implementation_plan |-> ExtractOr(data, "implementation_plan", "default_plan")]

\* process_task, line 109: result = await self._formulate_strategy(parameters)
GetUpstream(w) ==
  /\ w \in GraphWorkers
  /\ worker[w].pc = "get_upstream"
  /\ worker' = [worker EXCEPT ![w].pc = "create_result",
                              ![w].result = << StageResult(w, worker[w].req.parameters) >>]
  /\ UNCHANGED <<connection, uuid, store, storage, orch, inbox, calls, outcome, faults>>

\* _store_result writing the upstream id (source_task) as the Result's owner.
CreateResultForUpstream(w) ==
  /\ w \in GraphWorkers
  /\ worker[w].pc = "create_result"
  /\ uuid' = uuid + 1
  /\ resultNodes' = resultNodes @@ ((uuid + 1) :>
       [subtask_id |-> worker[w].result[1].source_task,
        content |-> JsonDumps(worker[w].result[1])])
  /\ worker' = [worker EXCEPT ![w].pc = "link_result"]
  /\ UNCHANGED <<connection, COORDINATES, agentNodes, taskNodes, subTaskNodes, ASSIGNED_TO, CONTAINS,
                 PRODUCES, storage, orch, inbox, calls, outcome, faults>>

\* _store_result, first statement: CREATE (r:Result {id, subtask_id, content}).
CreateResult(w) ==
  /\ w \in GraphWorkers
  /\ worker[w].pc = "create_result"
  /\ uuid' = uuid + 1
  /\ resultNodes' = resultNodes @@ ((uuid + 1) :>
       [subtask_id |-> worker[w].req.subtask_id,
        content |-> JsonDumps(worker[w].result[1])])
  /\ worker' = [worker EXCEPT ![w].pc = "link_result"]
  /\ UNCHANGED <<connection, COORDINATES, agentNodes, taskNodes, subTaskNodes, ASSIGNED_TO, CONTAINS,
                 PRODUCES, storage, orch, inbox, calls, outcome, faults>>

\* _store_result, second statement: MATCH the SubTask and the Results with its
\* subtask_id, MERGE (st)-[:PRODUCES]->(r).
LinkResult(w) ==
  /\ w \in GraphWorkers
  /\ worker[w].pc = "link_result"
  /\ PRODUCES' = PRODUCES \cup
       { <<s, r>> \in (DOMAIN subTaskNodes) \X (DOMAIN resultNodes) :
           /\ s = worker[w].req.subtask_id
           /\ resultNodes[r].subtask_id = worker[w].req.subtask_id }
  /\ worker' = [worker EXCEPT ![w].pc = "set_completed"]
  /\ UNCHANGED <<connection, COORDINATES, uuid, agentNodes, taskNodes, subTaskNodes, resultNodes,
                 ASSIGNED_TO, CONTAINS, storage, orch, inbox, calls, outcome, faults>>

\* _store_result, third statement: SET st.status = 'completed'.
SetCompleted(w) ==
  /\ w \in GraphWorkers
  /\ worker[w].pc = "set_completed"
  /\ subTaskNodes' = [s \in DOMAIN subTaskNodes |->
       IF s = worker[w].req.subtask_id
         THEN [subTaskNodes[s] EXCEPT !.status = "completed"]
         ELSE subTaskNodes[s]]
  /\ worker' = [worker EXCEPT ![w].pc = "set_available"]
  /\ UNCHANGED <<connection, COORDINATES, uuid, agentNodes, taskNodes, resultNodes, ASSIGNED_TO, CONTAINS,
                 PRODUCES, storage, orch, inbox, calls, outcome, faults>>

\* process_task, line 111: self._update_agent_status("available", None)
SetAvailable(w) ==
  /\ w \in GraphWorkers
  /\ worker[w].pc = "set_available"
  /\ agentNodes' = UpdateAgentStatus(w, "available", Null)
  /\ worker' = [worker EXCEPT ![w].pc = "respond"]
  /\ UNCHANGED <<connection, COORDINATES, uuid, taskNodes, subTaskNodes, resultNodes, ASSIGNED_TO, CONTAINS,
                 PRODUCES, storage, orch, inbox, calls, outcome, faults>>

\* The HTTP answer reaches the orchestrator only while its POST for this
\* SubTask is still open; after a timeout the answer is dropped.
Answer(w, status) ==
  IF orch.pc = "wait" /\ orch.subtask_id = RequestId(w, worker[w].req)
    THEN [orch EXCEPT !.reply = status]
    ELSE orch

\* process_task returns TaskResponse(status="completed"): HTTP 200.
Respond(w) ==
  /\ worker[w].pc = "respond"
  /\ orch' = Answer(w, "completed")
  /\ worker' = [worker EXCEPT ![w] = IdleWorker]
  /\ UNCHANGED <<connection, uuid, store, storage, inbox, calls, outcome, faults>>

\* The steps of process_task's try block that can raise (store or connection
\* errors); a raising statement has no effect on the store. The domain work
\* of the research and analysis workers catches its own exceptions.
RaisingSteps(w) ==
  IF w \in GraphWorkers
    THEN {"set_busy", "get_upstream", "create_result", "link_result",
          "set_completed", "set_available"}
    ELSE {"connect", "merge_busy", "merge_available"}

WorkerRaises(w) ==
  /\ worker[w].pc \in RaisingSteps(w)
  /\ worker' = [worker EXCEPT ![w].pc = "except_release"]
  /\ Fault(TRUE)
  /\ UNCHANGED <<connection, uuid, store, storage, orch, inbox, calls, outcome>>

\* The node a MERGE (a:Agent {agent_id: $agent_id}) creates when none matches.
MergedAgent(agent_id) ==
  [id |-> Null, agent_id |-> agent_id, type |-> Null, status |-> Null,
   capabilities |-> <<Null>>, current_task |-> Null]

\* research_agent.py / analysis_agent.py process_task:
\* MERGE (a:Agent {agent_id: $agent_id}) SET a.status, a.current_task.
MergeAgentStatus(w, status, current_task) ==
  LET nodes == IF AgentsWithAgentId(AgentIdOf(w)) = {}
                 THEN Append(agentNodes, MergedAgent(AgentIdOf(w)))
                 ELSE agentNodes
  IN [i \in DOMAIN nodes |->
        IF nodes[i].agent_id = AgentIdOf(w)
          THEN [nodes[i] EXCEPT !.status = status, !.current_task = current_task]
          ELSE nodes[i]]

\* The except block of process_task: reset the agent to available (ok), or
\* fail at that too (the store is still down after the failure that led
\* here); either way the request is answered with HTTP 500.
ExceptRelease(w, ok) ==
  /\ worker[w].pc = "except_release"
  /\ agentNodes' = IF ~ok THEN agentNodes
                   ELSE IF w \in GraphWorkers
                     THEN UpdateAgentStatus(w, "available", Null)
                     ELSE MergeAgentStatus(w, "available", "")
  /\ worker' = [worker EXCEPT ![w].pc = "respond_error"]
  /\ UNCHANGED <<connection, COORDINATES, uuid, taskNodes, subTaskNodes, resultNodes, ASSIGNED_TO, CONTAINS,
                 PRODUCES, storage, orch, inbox, calls, outcome, faults>>

\* The except block answering with a TaskResponse instead of raising: HTTP 200,
\* which response.raise_for_status() accepts.
RespondErrorWithHttp200(w) ==
  /\ worker[w].pc = "respond_error"
  /\ orch' = Answer(w, "completed")
  /\ worker' = [worker EXCEPT ![w] = IdleWorker]
  /\ UNCHANGED <<connection, uuid, store, storage, inbox, calls, outcome, faults>>

\* raise HTTPException(status_code=500)
RespondError(w) ==
  /\ worker[w].pc = "respond_error"
  /\ orch' = Answer(w, "error")
  /\ worker' = [worker EXCEPT ![w] = IdleWorker]
  /\ UNCHANGED <<connection, uuid, store, storage, inbox, calls, outcome, faults>>

\* research_agent.py / analysis_agent.py: driver = _initialize_neo4j_connection()
Connect(w) ==
  /\ w \in StorageWorkers
  /\ worker[w].pc = "connect"
  /\ worker' = [worker EXCEPT ![w].pc = "merge_busy"]
  /\ UNCHANGED <<connection, uuid, store, storage, orch, inbox, calls, outcome, faults>>

\* process_task: MERGE (a:Agent {agent_id}) SET a.status = 'busy', a.current_task
MergeBusy(w) ==
  /\ w \in StorageWorkers
  /\ worker[w].pc = "merge_busy"
  /\ agentNodes' = MergeAgentStatus(w, "busy", RequestId(w, worker[w].req))
  /\ worker' = [worker EXCEPT ![w].pc = IF w = "analysis" THEN "get_research" ELSE "work"]
  /\ UNCHANGED <<connection, COORDINATES, uuid, taskNodes, subTaskNodes, resultNodes, ASSIGNED_TO, CONTAINS,
                 PRODUCES, storage, orch, inbox, calls, outcome, faults>>

\* The tasks whose scraped_data the storage service holds.
ResearchSources ==
  { f.task_id : f \in { g \in storage : g.data_type = "scraped_data" } }

\* analysis_agent.py _get_research_results: GET /api/data?data_type=scraped_data
\* and take data[0], the first file in the service's glob order, whatever task
\* it belongs to; None (0) when there is none. The task_id argument is unused.
GetResearchResults(w, source) ==
  /\ w = "analysis"
  /\ worker[w].pc = "get_research"
  /\ source \in (IF ResearchSources = {} THEN {0} ELSE ResearchSources)
  /\ worker' = [worker EXCEPT ![w].pc = "work", ![w].result = <<source>>]
  /\ UNCHANGED <<connection, uuid, store, storage, orch, inbox, calls, outcome, faults>>

\* The domain work of the research and analysis workers and their
\* _store_research_data call, which posts one file to the storage service and
\* swallows every failure (stored = FALSE). Nothing is written to the graph.
Work(w, stored) ==
  /\ w \in StorageWorkers
  /\ worker[w].pc = "work"
  /\ storage' = IF ~stored THEN storage
                ELSE storage \cup
                  { [agent_id |-> AgentIdOf(w), task_id |-> RequestId(w, worker[w].req),
                     data_type |-> IF w = "research" THEN "scraped_data"
                                   ELSE "analysis_results"] }
  /\ worker' = [worker EXCEPT ![w].pc = "merge_available"]
  /\ Fault(~stored)
  /\ UNCHANGED <<connection, uuid, store, orch, inbox, calls, outcome>>

\* process_task: MERGE (a:Agent {agent_id}) SET a.status = 'available', a.current_task = ''
MergeAvailable(w) ==
  /\ w \in StorageWorkers
  /\ worker[w].pc = "merge_available"
  /\ agentNodes' = MergeAgentStatus(w, "available", "")
  /\ worker' = [worker EXCEPT ![w].pc = "respond"]
  /\ UNCHANGED <<connection, COORDINATES, uuid, taskNodes, subTaskNodes, resultNodes, ASSIGNED_TO, CONTAINS,
                 PRODUCES, storage, orch, inbox, calls, outcome, faults>>

\* ------------------------------------------------------- the specification
Next ==
  \/ \E req \in Requests : CreateTask(req)
  \/ AssignCoordination
  \/ CreateSubTask
  \/ LinkSubTaskToTask
  \/ LinkSubTaskToAgent
  \/ \E delivered \in BOOLEAN : SendTaskToAgent(delivered)
  \/ StoreWriteRaises
  \/ CallTimesOut
  \/ CallReturnsError
  \/ CallReturnsSuccess
  \/ \E task_id \in QueriedIds : GetTaskStatus(task_id)
  \/ ReturnTaskStatus
  \/ GetAgentStatus
  \/ ReturnAgentStatus
  \/ \E w \in Workers : AcceptRequest(w)
  \/ \E w \in Workers : SetBusy(w)
  \/ \E w \in Workers : GetUpstream(w)
  \/ \E w \in Workers : CreateResult(w)
  \/ \E w \in Workers : LinkResult(w)
  \/ \E w \in Workers : SetCompleted(w)
  \/ \E w \in Workers : SetAvailable(w)
  \/ \E w \in Workers : Respond(w)
  \/ \E w \in Workers : WorkerRaises(w)
  \/ \E w \in Workers, ok \in BOOLEAN : ExceptRelease(w, ok)
  \/ \E w \in Workers : RespondError(w)
  \/ \E w \in Workers : Connect(w)
  \/ \E w \in Workers : MergeBusy(w)
  \/ \E w \in Workers, source \in 0..uuid : GetResearchResults(w, source)
  \/ \E w \in Workers, stored \in BOOLEAN : Work(w, stored)
  \/ \E w \in Workers : MergeAvailable(w)

Spec == Init /\ [][Next]_vars

\* uvicorn.run(app) serves the orchestrator from one process whose event loop
\* runs every enabled step of a handler sooner or later: no step of the
\* system stays enabled for ever without a step being taken.
FairSpec == Spec /\ WF_vars(Next)

\* The same system when its processes may stop and start again between two
\* requests: every start registers the process's Agent nodes anew.
NextWithRestarts ==
  \/ Next
  \/ InitializeGraph
  \/ \E w \in Workers : InitializeAgent(w)

SpecWithRestarts == Init /\ [][NextWithRestarts]_vars

\* ------------------------------------------------- connecting to the store
\* The processes that open a driver to the graph store when they start (the
\* research and analysis workers also at every request).
Processes == {"orchestrator"} \cup Workers

\* What one attempt (GraphDatabase.driver and RETURN 1) ends with: success,
\* ServiceUnavailable, or any other exception.
AttemptOutcomes == {"ok", "unavailable", "other"}

\* max_retries
MaxRetries(process) == IF process \in StorageWorkers THEN 10 ELSE 30

\* The exceptions after which the loop tries again: ServiceUnavailable in the
\* orchestrator and the strategy and report agents (any other is re-raised at
\* once), every Exception in the research and analysis agents.
Retried(process, result) ==
  \/ result = "unavailable"
  \/ result = "other" /\ process \in StorageWorkers

\* A process enters _initialize_neo4j_connection.
InitConnect ==
  /\ uuid = 0
  /\ agentNodes = InitialAgentNodes
  /\ taskNodes = <<>>
  /\ subTaskNodes = <<>>
  /\ resultNodes = <<>>
  /\ ASSIGNED_TO = {}
  /\ CONTAINS = {}
  /\ PRODUCES = {}
  /\ COORDINATES = Coordinated(InitialAgentNodes)
  /\ storage = {}
  /\ orch = IdleOrch
  /\ inbox = [w \in Workers |-> <<>>]
  /\ worker = [w \in Workers |-> IdleWorker]
  /\ calls = <<>>
  /\ outcome = <<>>
  /\ faults = 0
  /\ connection \in { [process |-> p, attempt |-> 0, state |-> "trying", last |-> "none"] :
                        p \in Processes }

\* The loop going on after a successful attempt: no break, no return.
ConnectAttemptWithoutBreak(result) ==
  /\ connection.state \in {"trying", "connected"}
  /\ connection.attempt < MaxRetries(connection.process)
  /\ connection' =
       [connection EXCEPT
          !.attempt = @ + 1,
          !.last = result,
          !.state = IF result = "ok" THEN "connected"
                    ELSE IF /\ Retried(connection.process, result)
                            /\ connection.attempt + 1 < MaxRetries(connection.process)
                      THEN "trying"
                    ELSE "fatal"]
  /\ UNCHANGED <<uuid, store, storage, orch, inbox, worker, calls, outcome, faults>>

\* One pass of `for attempt in range(max_retries)`: success ends the loop
\* (break / return driver), a retried failure goes to the next pass unless it
\* was the last one, any other failure is raised.
ConnectAttempt(result) ==
  /\ connection.state = "trying"
  /\ connection.attempt < MaxRetries(connection.process)
  /\ connection' =
       [connection EXCEPT
          !.attempt = @ + 1,
          !.last = result,
          !.state = IF result = "ok" THEN "connected"
                    ELSE IF /\ Retried(connection.process, result)
                            /\ connection.attempt + 1 < MaxRetries(connection.process)
                      THEN "trying"
                    ELSE "fatal"]
  /\ UNCHANGED <<uuid, store, storage, orch, inbox, worker, calls, outcome, faults>>

NextConnect == \E result \in AttemptOutcomes : ConnectAttempt(result)

ConnectSpec == InitConnect /\ [][NextConnect]_vars

\* ------------------------------------------------------------ properties
\* The SubTasks a Task CONTAINS.
SubTasksOf(t) == { s \in DOMAIN subTaskNodes : <<t, s>> \in CONTAINS }

\* The SubTasks created for a Task: those it CONTAINS and the one
\* _assign_task_to_agent has created for it but not yet linked.
SubTasksCreatedFor(t) ==
  SubTasksOf(t) \cup
    { s \in DOMAIN subTaskNodes : orch.task_id = t /\ orch.subtask_id = s }

\* The Result nodes owned by a SubTask.
ResultsOf(s) == { r \in DOMAIN resultNodes : resultNodes[r].subtask_id = s }

\* The pipeline order of the design and the stage a SubTask type stands for.
StageOrder == <<"research", "analysis", "strategy", "report">>

StageOfType ==
  [web_scraping |-> 1, data_analysis |-> 2, strategy_formulation |-> 3,
   report_generation |-> 4]

StageIndex(s) == StageOfType[subTaskNodes[s].type]

ParametersOf(s) == JsonLoads(subTaskNodes[s].parameters)

\* C1: in every reachable state the stages of the SubTasks linked to a Task
\* are exactly the first n stages of research, analysis, strategy, report,
\* n being the number of those SubTasks (so no stage appears twice).
C1_StagesFormPrefix ==
  \A t \in DOMAIN taskNodes :
    LET n == Cardinality(SubTasksOf(t))
    IN /\ n <= Len(StageOrder)
       /\ { StageOrder[StageIndex(s)] : s \in SubTasksOf(t) }
            = { StageOrder[k] : k \in 1..n }

C1_Witness ==
  \E t \in DOMAIN taskNodes : Cardinality(SubTasksOf(t)) = 4

\* C2: the research SubTask of a Task has no depends_on; the analysis,
\* strategy and report SubTasks have depends_on equal to the id of the same
\* Task's SubTask of the stage just before.
C2_DependsOnPreviousStage ==
  \A t \in DOMAIN taskNodes : \A s \in SubTasksCreatedFor(t) :
    IF StageIndex(s) = 1
      THEN "depends_on" \notin DOMAIN ParametersOf(s)
      ELSE /\ "depends_on" \in DOMAIN ParametersOf(s)
           /\ ParametersOf(s).depends_on \in SubTasksOf(t)
           /\ StageIndex(ParametersOf(s).depends_on) = StageIndex(s) - 1

C2_Witness ==
  \E t \in DOMAIN taskNodes : \E s \in SubTasksOf(t) :
    StageIndex(s) = 4 /\ "depends_on" \in DOMAIN ParametersOf(s)

\* C3: within a Task at most one stage call is in flight, and a SubTask of a
\* later stage exists only if the calls of all earlier stages of that Task
\* have returned.
C3_StagesSequential ==
  \A t \in DOMAIN taskNodes :
    /\ Cardinality({ s \in SubTasksCreatedFor(t) :
                       s \in DOMAIN calls /\ calls[s].status = "in_flight" }) <= 1
    /\ \A s1, s2 \in SubTasksCreatedFor(t) :
         StageIndex(s1) < StageIndex(s2)
           => s1 \in DOMAIN calls /\ calls[s1].status = "returned"

C3_Witness ==
  \E t \in DOMAIN taskNodes : \E s1, s2 \in SubTasksOf(t) :
    /\ StageIndex(s1) < StageIndex(s2)
    /\ s2 \in DOMAIN calls /\ calls[s2].status = "in_flight"

\* C4: every completed SubTask owns exactly one Result, and no SubTask in
\* any status owns two.
C4_OneResultPerCompleted ==
  \A s \in DOMAIN subTaskNodes :
    /\ Cardinality(ResultsOf(s)) <= 1
    /\ subTaskNodes[s].status = "completed" => Cardinality(ResultsOf(s)) = 1

C4_Witness ==
  \E s \in DOMAIN subTaskNodes :
    subTaskNodes[s].status = "completed" /\ Cardinality(ResultsOf(s)) = 1

\* C5: whenever a Result with subtask_id = S exists, SubTask S has status
\* completed (at the granularity of single store writes).
C5_ResultImpliesCompleted ==
  \A r \in DOMAIN resultNodes :
    /\ resultNodes[r].subtask_id \in DOMAIN subTaskNodes
    /\ subTaskNodes[resultNodes[r].subtask_id].status = "completed"

\* C6: a SubTask with a depends_on has been sent to its worker only if the
\* SubTask named by depends_on PRODUCES a Result.
C6_SentAfterUpstreamResult ==
  \A s \in DOMAIN calls :
    "depends_on" \in DOMAIN ParametersOf(s)
      => \E r \in DOMAIN resultNodes : <<ParametersOf(s).depends_on, r>> \in PRODUCES

\* C7: when the call for a stage has returned success, the stage's SubTask is
\* completed and PRODUCES a Result.
C7_SuccessMeansCompleted ==
  \A s \in DOMAIN calls :
    calls[s].status = "returned"
      => /\ subTaskNodes[s].status = "completed"
         /\ \E r \in DOMAIN resultNodes : <<s, r>> \in PRODUCES

\* C8: once all four stage calls of a Task have succeeded (create_task has
\* answered "started"), the Task has exactly four SubTasks, all completed,
\* and its own status is completed.
C8_PipelineCompletesTask ==
  \A t \in DOMAIN taskNodes :
    outcome[t] = "started"
      => /\ Cardinality(SubTasksOf(t)) = 4
         /\ \A s \in SubTasksOf(t) : subTaskNodes[s].status = "completed"
         /\ taskNodes[t].status = "completed"

\* C9: once the call for a stage has failed, the stage's SubTask is failed
\* and the owning Task is failed.
C9_FailureIsRecorded ==
  \A t \in DOMAIN taskNodes : \A s \in SubTasksOf(t) :
    (s \in DOMAIN calls /\ calls[s].status = "failed")
      => /\ subTaskNodes[s].status = "failed"
         /\ taskNodes[t].status = "failed"

\* C10: once the call for stage k of a Task has failed, in every later state
\* the Task has exactly k SubTasks (none was created for a later stage) and
\* the failed SubTask has been posted exactly once.
C10_NoStageAfterFailure ==
  \A t \in DOMAIN taskNodes : \A s \in SubTasksOf(t) :
    (s \in DOMAIN calls /\ calls[s].status = "failed")
      => /\ Cardinality(SubTasksCreatedFor(t)) = StageIndex(s)
         /\ calls[s].posts = 1
         /\ \A s2 \in SubTasksOf(t) : s2 \in DOMAIN calls /\ calls[s2].posts = 1

C10_Witness ==
  \E t \in DOMAIN taskNodes : \E s \in SubTasksOf(t) :
    /\ s \in DOMAIN calls /\ calls[s].status = "failed"
    /\ StageIndex(s) = 2
    /\ orch.pc = "idle"

\* The Agent nodes that stand for worker w: the one registered under `id` and
\* the one the research and analysis workers merge under `agent_id`.
AgentNodesOf(w) == AgentsWithId(AgentIdOf(w)) \cup AgentsWithAgentId(AgentIdOf(w))

\* The SubTask worker w is executing, 0 when it is idle.
Executing(w) == IF worker[w].pc = "idle" THEN 0 ELSE RequestId(w, worker[w].req)

\* C13: whenever a stage call of a Task is in flight, the Task's stored status
\* is running.
C13_RunningWhileInFlight ==
  \A t \in DOMAIN taskNodes : \A s \in SubTasksOf(t) :
    (s \in DOMAIN calls /\ calls[s].status = "in_flight")
      => taskNodes[t].status = "running"

\* C14: an Agent node with status busy has current_task equal to the id of
\* the SubTask its worker is executing, and that SubTask is ASSIGNED_TO the
\* node; an Agent node with status available has current_task "".
C14_BusyNamesExecutingSubTask ==
  \A w \in Workers : \A i \in AgentNodesOf(w) :
    /\ agentNodes[i].status = "busy"
         => /\ agentNodes[i].current_task = Executing(w)
            /\ <<i, agentNodes[i].current_task>> \in ASSIGNED_TO
    /\ agentNodes[i].status = "available" => agentNodes[i].current_task = ""

\* C15: once a worker's handler has ended (with success or with any failure),
\* the Agent it marked busy is available again with current_task "".
C15_ReleasedWhenStageEnds ==
  \A w \in Workers : \A i \in AgentNodesOf(w) :
    worker[w].pc = "idle"
      => agentNodes[i].status = "available" /\ agentNodes[i].current_task = ""

\* The requests for SubTask s that worker w holds: queued or being handled.
Deliveries(w, s) ==
  Cardinality({ k \in DOMAIN inbox[w] : RequestId(w, inbox[w][k]) = s })
    + (IF Executing(w) = s THEN 1 ELSE 0)

\* C17: every SubTask is posted to its worker at most once, whatever became
\* of the call: one POST per SubTask id, at most one request for it at the
\* workers.
C17_AtMostOnePost ==
  \A s \in DOMAIN subTaskNodes :
    /\ s \in DOMAIN calls => calls[s].posts = 1
    /\ \A w \in Workers : Deliveries(w, s) <= 1
    /\ Cardinality({ w \in Workers : Deliveries(w, s) > 0 }) <= 1

\* A call has timed out while its worker still handles the request, and the
\* orchestrator has gone on to another Task without posting it again.
C17_Witness ==
  \E s \in DOMAIN calls : \E w \in Workers :
    /\ calls[s].status = "failed" /\ calls[s].posts = 1
    /\ Executing(w) = s
    /\ orch.pc = "wait" /\ orch.subtask_id # s

\* C18: a SubTask whose depends_on names a SubTask without a Result gets no
\* Result, is not marked completed, and its worker does not answer success.
C18_MissingUpstreamIsAnError ==
  \A s \in DOMAIN subTaskNodes :
    ("depends_on" \in DOMAIN ParametersOf(s)
       /\ UpstreamResults(ParametersOf(s).depends_on) = <<>>)
      => /\ ResultsOf(s) = {}
         /\ subTaskNodes[s].status # "completed"
         /\ \A w \in Workers : Executing(w) = s => worker[w].pc # "respond"

\* C19: the upstream data a stage works on is that of the SubTask its
\* depends_on names, a SubTask of the same Task: the research data the
\* analysis worker has fetched is the data stored for that SubTask.
C19_InputFromOwnUpstream ==
  \A t \in DOMAIN taskNodes : \A s \in SubTasksOf(t) :
    (Executing("analysis") = s /\ worker["analysis"].pc = "work"
       /\ worker["analysis"].result # <<0>>)
      => /\ worker["analysis"].result = << ParametersOf(s).depends_on >>
         /\ worker["analysis"].result[1] \in SubTasksOf(t)

\* C16: however registrations (process starts) and status updates interleave,
\* the store holds exactly one Agent node for every registered id, carrying
\* the type and capabilities it was registered with.
C16_OneNodePerAgentId ==
  /\ Cardinality(AgentsWithId("coordination_agent")) = 1
  /\ \A w \in Workers :
       /\ Cardinality(AgentsWithId(AgentIdOf(w))) = 1
       /\ \A i \in AgentsWithId(AgentIdOf(w)) :
            /\ agentNodes[i].type = w
            /\ agentNodes[i].capabilities = AgentCapabilities(w)

\* C20: a task-status query for an id that names no Task answers not found
\* and changes nothing: the graph store and the storage service's files are
\* the same after the query as before it.
C20_UnknownTaskChangesNothing ==
  [][(orch.pc = "idle" /\ orch'.pc = "answer_status"
        /\ orch'.task_id \notin DOMAIN taskNodes)
       => /\ orch'.answer = << TaskNotFound >>
          /\ store' = store
          /\ storage' = storage]_vars

\* A query for the id of a SubTask, which names no Task, has been answered
\* not found while a Task is in the store.
C20_Witness ==
  /\ orch.pc = "answer_status"
  /\ orch.task_id \in DOMAIN subTaskNodes
  /\ orch.task_id \notin DOMAIN taskNodes
  /\ orch.answer = << TaskNotFound >>
  /\ taskNodes # <<>>

\* C21: every create_task request that has persisted a Task node and whose
\* handler has ended was answered {task_id, status "started", message} with
\* the id of that node.
C21_PersistedTaskIsReturned ==
  \A t \in DOMAIN taskNodes :
    outcome[t] # "in_progress" => outcome[t] = "started"

\* The Tasks that CONTAIN a SubTask, and the Results that belong to a Task.
TasksOf(s) == { t \in DOMAIN taskNodes : <<t, s>> \in CONTAINS }

ResultsOfTask(t) ==
  { r \in DOMAIN resultNodes :
      \/ resultNodes[r].subtask_id \in SubTasksOf(t)
      \/ \E s \in SubTasksOf(t) : <<s, r>> \in PRODUCES }

\* Two distinct Tasks share no SubTask and no Result, and no id is used for
\* nodes of two kinds.
TasksAreDisjoint ==
  /\ \A t1, t2 \in DOMAIN taskNodes :
       t1 # t2 => /\ SubTasksOf(t1) \cap SubTasksOf(t2) = {}
                  /\ ResultsOfTask(t1) \cap ResultsOfTask(t2) = {}
  /\ DOMAIN taskNodes \cap DOMAIN subTaskNodes = {}
  /\ DOMAIN subTaskNodes \cap DOMAIN resultNodes = {}
  /\ DOMAIN taskNodes \cap DOMAIN resultNodes = {}

\* C22 as claimed: two distinct Tasks share no SubTask id and no Result id,
\* every SubTask in the store is linked by CONTAINS to exactly one Task, and
\* every depends_on names a SubTask of the same Task.
C22_TasksShareNothing ==
  /\ TasksAreDisjoint
  /\ \A s \in DOMAIN subTaskNodes :
       /\ Cardinality(TasksOf(s)) = 1
       /\ "depends_on" \in DOMAIN ParametersOf(s)
            => TasksOf(ParametersOf(s).depends_on) = TasksOf(s)

\* C22 as amended: two distinct Tasks share no SubTask id and no Result id,
\* every SubTask is linked by CONTAINS to at most one Task, and to exactly one
\* from the moment it is sent to its worker; every depends_on names a SubTask
\* of exactly one Task, the one its SubTask is created for and linked to.
C22_TasksShareNothingOnceSent ==
  /\ TasksAreDisjoint
  /\ \A s \in DOMAIN subTaskNodes :
       /\ Cardinality(TasksOf(s)) <= 1
       /\ s \in DOMAIN calls => Cardinality(TasksOf(s)) = 1
       /\ "depends_on" \in DOMAIN ParametersOf(s)
            => /\ Cardinality(TasksOf(ParametersOf(s).depends_on)) = 1
               /\ TasksOf(s) \subseteq TasksOf(ParametersOf(s).depends_on)
               /\ orch.subtask_id = s
                    => orch.task_id \in TasksOf(ParametersOf(s).depends_on)

\* Two Tasks have each got SubTasks and a Result.
C22_Witness ==
  \E t1, t2 \in DOMAIN taskNodes :
    t1 # t2 /\ ResultsOfTask(t1) # {} /\ ResultsOfTask(t2) # {}

\* A stage call of one Task is in flight while a Task created later has a
\* SubTask posted to its worker.
TwoTasksInProgress ==
  \E t1, t2 \in DOMAIN taskNodes :
    /\ t1 < t2
    /\ \E s1 \in SubTasksCreatedFor(t1) :
         s1 \in DOMAIN calls /\ calls[s1].status = "in_flight"
    /\ \E s2 \in SubTasksCreatedFor(t2) : s2 \in DOMAIN calls

\* C23: two Tasks submitted to the same orchestrator get to be in progress at
\* the same time: a stage call of one Task is in flight while another Task,
\* created later, already has a SubTask dispatched.
C23_TasksRunConcurrently == <>TwoTasksInProgress

\* C24: Task, SubTask and Result nodes are write-once: no step of the
\* orchestrator or of a worker deletes one or one of their CONTAINS and
\* PRODUCES edges, and the subtask_id and content of a Result never change
\* after its creation; a handler that ends in an error takes nothing back.
C24_NodesAreWriteOnce ==
  [][/\ DOMAIN taskNodes \subseteq DOMAIN taskNodes'
     /\ DOMAIN subTaskNodes \subseteq DOMAIN subTaskNodes'
     /\ DOMAIN resultNodes \subseteq DOMAIN resultNodes'
     /\ \A r \in DOMAIN resultNodes :
          /\ resultNodes'[r].subtask_id = resultNodes[r].subtask_id
          /\ resultNodes'[r].content = resultNodes[r].content
     /\ \A s \in DOMAIN subTaskNodes :
          /\ subTaskNodes'[s].type = subTaskNodes[s].type
          /\ subTaskNodes'[s].parameters = subTaskNodes[s].parameters
     /\ CONTAINS \subseteq CONTAINS'
     /\ PRODUCES \subseteq PRODUCES']_vars

\* A Task whose handler ended in an error still has its SubTasks and a Result
\* of a stage that ended before the failure.
C24_Witness ==
  \E t \in DOMAIN taskNodes :
    /\ outcome[t] = "error"
    /\ SubTasksOf(t) # {}
    /\ \E r \in ResultsOfTask(t) : \E s \in SubTasksOf(t) : <<s, r>> \in PRODUCES

C26_ListingShowsRegisteredAgents ==
  [][(orch.pc = "idle" /\ orch'.pc = "answer_agents") =>
       /\ Len(orch'.answer) = Len(agentNodes)
       /\ \A i \in DOMAIN agentNodes :
            agentNodes[i].id # Null =>
              /\ orch'.answer[i].agent_id = agentNodes[i].id
              /\ orch'.answer[i].agent_type = agentNodes[i].type
              /\ orch'.answer[i].status = agentNodes[i].status
              /\ orch'.answer[i].capabilities = agentNodes[i].capabilities
              /\ agentNodes[i].status = "busy"
                   => orch'.answer[i].current_task = agentNodes[i].current_task]_vars

\* C27: the agent status listing has one entry for every Agent node, whatever
\* the node lacks: a field the query returns as null is listed with its
\* default ("unknown" for id, type and status, "" for current_task, the empty
\* list for capabilities), every other field with the node's value.
C27_ListingDefaultsMissingFields ==
  [][(orch.pc = "idle" /\ orch'.pc = "answer_agents") =>
       /\ Len(orch'.answer) = Len(agentNodes)
       /\ \A i \in DOMAIN agentNodes :
            LET node == agentNodes[i]
                entry == orch'.answer[i]
            IN /\ entry.agent_id = IF node.agent_id = Null THEN "unknown"
                                   ELSE node.agent_id
               /\ entry.agent_type = "unknown"
               /\ entry.status = IF node.status = Null THEN "unknown" ELSE node.status
               /\ node.status = "busy" => entry.current_task = node.current_task
               /\ node.status # "busy" =>
                    entry.current_task = IF node.current_task = Null THEN ""
                                         ELSE node.current_task
               /\ entry.capabilities = IF node.capabilities = <<Null>> THEN <<>>
                                       ELSE node.capabilities]_vars

\* A listing of a store with a registered node whose current_task was removed
\* and a node a worker merged, which has neither type nor capabilities.
C27_Witness ==
  /\ orch.pc = "answer_agents"
  /\ Len(orch.answer) = Len(agentNodes)
  /\ \E i, j \in DOMAIN agentNodes :
       /\ agentNodes[i].id # Null /\ agentNodes[i].status = "available"
       /\ agentNodes[i].current_task = Null
       /\ orch.answer[i].agent_id = "unknown" /\ orch.answer[i].current_task = ""
       /\ agentNodes[j].id = Null /\ agentNodes[j].capabilities = <<Null>>
       /\ orch.answer[j].agent_type = "unknown" /\ orch.answer[j].capabilities = <<>>
       /\ orch.answer[j].agent_id = agentNodes[j].agent_id

\* C28: in every state where a stage call is in flight, the Agent node the
\* SubTask is ASSIGNED_TO is busy with that SubTask: the orchestrator has
\* marked it before the call was sent.
C28_BusyBeforeDispatch ==
  \A s \in DOMAIN calls :
    calls[s].status = "in_flight" =>
      /\ \E i \in DOMAIN agentNodes : <<i, s>> \in ASSIGNED_TO
      /\ \A i \in DOMAIN agentNodes :
           <<i, s>> \in ASSIGNED_TO
             => agentNodes[i].status = "busy" /\ agentNodes[i].current_task = s

\* C29: single writer per entity. A step of the orchestrator changes no
\* SubTask's status and no Agent node's status or current_task, and its send
\* step changes nothing in the store; a step of a worker changes the status of
\* no SubTask but the one it executes, which is of its own stage, and no Agent
\* node but its own.
C29_SingleWriterPerEntity ==
  [][/\ orch'.pc # orch.pc =>
          /\ Len(agentNodes') = Len(agentNodes)
          /\ \A i \in DOMAIN agentNodes :
               /\ agentNodes'[i].status = agentNodes[i].status
               /\ agentNodes'[i].current_task = agentNodes[i].current_task
          /\ \A s \in DOMAIN subTaskNodes :
               subTaskNodes'[s].status = subTaskNodes[s].status
     /\ (orch.pc = "send" /\ orch'.pc # "send") => store' = store
     /\ \A w \in Workers :
          worker'[w].pc # worker[w].pc =>
            /\ \A s \in DOMAIN subTaskNodes :
                 subTaskNodes'[s].status # subTaskNodes[s].status
                   => /\ s = Executing(w)
                      /\ StageOrder[StageIndex(s)] = w
            /\ \A i \in DOMAIN agentNodes :
                 (\/ agentNodes'[i].status # agentNodes[i].status
                  \/ agentNodes'[i].current_task # agentNodes[i].current_task)
                   => i \in AgentNodesOf(w)
            /\ \A i \in DOMAIN agentNodes' \ DOMAIN agentNodes :
                 agentNodes'[i].agent_id = AgentIdOf(w)]_vars

\* A worker has completed the SubTask it executes and released its own Agent
\* node while the orchestrator waits for its answer.
C29_Witness ==
  \E w \in GraphWorkers :
    /\ worker[w].pc = "respond"
    /\ orch.pc = "wait" /\ orch.subtask_id = Executing(w)
    /\ subTaskNodes[Executing(w)].status = "completed"
    /\ \A i \in AgentNodesOf(w) : agentNodes[i].status = "available"

\* The orchestrator is inside a create_task handler.
InCreateTask == orch.pc \notin {"idle", "answer_status", "answer_agents"}

\* The stage calls made for a Task.
StageCallsOf(t) == { s \in SubTasksCreatedFor(t) : s \in DOMAIN calls }

\* C30: every pipeline run terminates. At most four stage calls are made for
\* a Task; a call that times out ends the handler as a failed stage; every
\* create_task handler, waiting for a worker's answer or not, eventually
\* returns or raises.
C30_PipelineRunTerminates ==
  /\ [](\A t \in DOMAIN taskNodes : Cardinality(StageCallsOf(t)) <= Len(Pipeline))
  /\ [][(orch.pc = "wait" /\ orch.reply = "none" /\ orch'.pc # "wait")
          => /\ orch'.pc = "idle"
             /\ outcome'[orch.task_id] = "error"
             /\ calls'[orch.subtask_id].status = "failed"]_vars
  /\ InCreateTask ~> (orch.pc = "idle")

\* A create_task handler has ended with an error because a stage call timed
\* out: the call is failed while the worker still has the request.
C30_Witness ==
  /\ orch.pc = "idle"
  /\ \E t \in DOMAIN taskNodes : \E s \in SubTasksOf(t) : \E w \in Workers :
       /\ outcome[t] = "error"
       /\ s \in DOMAIN calls /\ calls[s].status = "failed"
       /\ Deliveries(w, s) = 1

\* C31: a stage call that times out is not cancelled at the worker. The step
\* that gives the call up ends the handler and leaves every worker's handler
\* and queue as they are, so the worker goes on with the request.
C31_TimedOutCallIsNotCancelled ==
  [][(orch.pc = "wait" /\ orch.reply = "none" /\ orch'.pc # "wait")
       => \A w \in Workers :
            /\ worker'[w].pc = worker[w].pc
            /\ Len(inbox'[w]) = Len(inbox[w])
            /\ Executing(w)' = Executing(w)]_vars

\* The orchestrator gave up a strategy or report call and aborted its Task;
\* after a later Task was created, the worker created a Result for that
\* SubTask and set it completed.
C31_Witness ==
  \E t1, t2 \in DOMAIN taskNodes : \E s \in SubTasksOf(t1) : \E r \in ResultsOf(s) :
    /\ t1 < t2 /\ t2 < r
    /\ outcome[t1] = "error"
    /\ s \in DOMAIN calls /\ calls[s].status = "failed"
    /\ StageOrder[StageIndex(s)] \in GraphWorkers
    /\ <<s, r>> \in PRODUCES
    /\ subTaskNodes[s].status = "completed"

\* The steps of process_task that write the worker's Agent status.
StatusWriteSteps == {"set_busy", "set_available", "merge_busy", "merge_available"}

\* C32: a failure of an agent status write does not abort the stage in
\* progress: whatever becomes of the write of busy or of available, the
\* handler goes on to its next step and never to its failure path.
C32_StatusWriteFailureDoesNotAbort ==
  [][\A w \in Workers :
       (worker[w].pc \in StatusWriteSteps /\ worker'[w].pc # worker[w].pc)
         => worker'[w].pc \notin {"except_release", "respond_error"}]_vars

\* C33 as claimed: the connect loop makes at most max_retries attempts, none
\* after a successful one, and ends with a fatal error only after its last
\* attempt has failed with the store unavailable.
C33_FatalOnlyAfterLastAttempt ==
  /\ [](/\ connection.attempt <= MaxRetries(connection.process)
        /\ connection.state = "fatal"
             => /\ connection.attempt = MaxRetries(connection.process)
                /\ connection.last = "unavailable")
  /\ [][connection.state = "connected" => connection' = connection]_vars

\* C33 as amended: the connect loop makes at most max_retries attempts (30 in
\* the orchestrator and the strategy and report agents, 10 in the research
\* and analysis agents) and none after a successful one; a failure it retries
\* is fatal only as its last attempt; an exception other than the store being
\* unavailable is fatal at once in the orchestrator and the strategy and
\* report agents and retried in the research and analysis agents.
C33_ConnectLoopIsBounded ==
  /\ [](/\ connection.attempt <= MaxRetries(connection.process)
        /\ connection.state = "connected" => connection.last = "ok"
        /\ connection.state = "trying"
             => \/ connection.attempt = 0
                \/ Retried(connection.process, connection.last)
        /\ connection.state = "fatal"
             => /\ connection.last # "ok"
                /\ Retried(connection.process, connection.last)
                     => connection.attempt = MaxRetries(connection.process))
  /\ [][connection.state = "connected" => connection' = connection]_vars

\* The orchestrator gave up after its thirtieth attempt found the store
\* unavailable.
C33_Witness ==
  /\ connection.process = "orchestrator"
  /\ connection.state = "fatal"
  /\ connection.attempt = 30
  /\ connection.last = "unavailable"

C35_LinkedBeforeSent ==
  orch.pc = "send" =>
    LET s == orch.subtask_id
        assigned == { i \in DOMAIN agentNodes : <<i, s>> \in ASSIGNED_TO }
    IN /\ s \in DOMAIN subTaskNodes
       /\ subTaskNodes[s].status = "pending"
       /\ TasksOf(s) = {orch.task_id}
       /\ Cardinality(assigned) = 1
       /\ \A i \in assigned :
            /\ agentNodes[i].id = AgentIdOf(StageOrder[StageIndex(s)])
            /\ agentNodes[i].type = StageOrder[StageIndex(s)]

\* C36: a SubTask whose worker has answered the orchestrator with a failure
\* has no Result and is not completed.
C36_FailedStageWroteNothing ==
  (orch.pc = "wait" /\ orch.reply = "error") =>
    /\ ResultsOf(orch.subtask_id) = {}
    /\ subTaskNodes[orch.subtask_id].status # "completed"

\* C37: worker status updates create no Agent node: the store holds exactly
\* the five registered Agent nodes, every node standing for a worker is the
\* one registered under the worker's id, and a node marked busy is one that
\* SubTasks are ASSIGNED_TO.
C37_StatusUpdatesCreateNoAgent ==
  /\ Len(agentNodes) = Len(InitialAgentNodes)
  /\ \A w \in Workers : \A i \in AgentNodesOf(w) :
       /\ agentNodes[i].id = AgentIdOf(w)
       /\ agentNodes[i].status = "busy"
            => \E s \in DOMAIN subTaskNodes : <<i, s>> \in ASSIGNED_TO

\* C38: every research-stage request the orchestrator has sent carries the
\* target_url, the analysis_scope and the priority of the Task that CONTAINS
\* the request's SubTask.
C38_ResearchRequestCarriesTaskValues ==
  \A k \in DOMAIN inbox["research"] :
    LET p == inbox["research"][k]
    IN \A t \in TasksOf(p.task_id) :
         /\ p.target_url = taskNodes[t].target_url
         /\ p.analysis_scope = taskNodes[t].analysis_scope
         /\ p.priority = taskNodes[t].priority

====
